---- MODULE Spec2Model ----
(***************************************************************************)
(* The data-preparation script cancer_analysis.py as a state machine: the  *)
(* DataFrame df is loaded once and then rewritten section by section       *)
(* (missing values, outliers, statistics, normalisation, text formats,     *)
(* save, validation).                                                      *)
(*                                                                         *)
(* Numbers.  Every number held in a cell is kept in fixed point, as the    *)
(* integer Scale * x.  The inputs are whole numbers; a median of two of    *)
(* them is a multiple of 1/2, a linearly interpolated quartile a multiple  *)
(* of 1/8 and an IQR bound a multiple of 1/16, so with Scale = 16 all the  *)
(* arithmetic of the script up to the capping is exact.  A min-max value   *)
(* is kept as the fraction num/den and a z-score as num/sqrt(var).  The    *)
(* float64 rounding of the script is not modelled.                         *)
(*                                                                         *)
(* Text.  A string is the sequence of its code points.                     *)
(***************************************************************************)
EXTENDS Integers, Sequences, FiniteSets, TLC

VARIABLES
    pc,               \* the section of the script about to run
    input,            \* oral_cancer_prediction_dataset.csv as read at line 6
    df,               \* the DataFrame df
    numeric_cols,     \* line 26
    categorical_cols, \* line 33
    outlier_report,   \* the outlier counts printed at line 54, per column
    log,              \* the section banners printed so far, in order
    output,           \* oral_cancer_processed.csv: the sequence of frames written
    missing_count,    \* line 143
    warnings,         \* the text-format warnings printed at lines 186 and 192
    contingency_table, \* oral_cancer_data_statistical.py, line 20
    odds_ratio,       \* oral_cancer_data_statistical.py, line 67
    txt,              \* a cell the text standardisation is applied to
    first,            \* the cell after one application
    applied           \* how many times it has been applied

vars == <<pc, input, df, numeric_cols, categorical_cols, outlier_report, log,
          output, missing_count, warnings, contingency_table, odds_ratio,
          txt, first, applied>>

pipeVars == <<pc, input, df, numeric_cols, categorical_cols, outlier_report, log,
              output, missing_count, warnings>>

textVars == <<txt, first, applied>>

statVars == <<contingency_table, odds_ratio>>

----------------------------------------------------------------------------
(* Bounds of the model *)

MaxRows == 4

MaxLen == 3

MaxCell == 4

Scale == 4 * 4

----------------------------------------------------------------------------
(* Cells *)

NaN == [k |-> "nan"]

Num(x) == [k |-> "num", v |-> x]

Inf(sign) == [k |-> "inf", sign |-> sign]

Str(s) == [k |-> "str", s |-> s]

\* a min-max value: num / den
Ratio(n, d) == [k |-> "ratio", num |-> n, den |-> d]

\* a z-score: (num / n) / sqrt(var.num / var.den)
ZVal(num, n, var) == [k |-> "z", num |-> num, n |-> n, var |-> var]

\* pandas isnull: NaN is the one missing value; inf and text are not missing
isnull(c) == c.k = "nan"

dropna(col) == SelectSeq(col, LAMBDA c : ~isnull(c))

Values(col) == [i \in 1..Len(col) |-> col[i].v]

Range(s) == {s[i] : i \in 1..Len(s)}

RECURSIVE SumSeq(_)
SumSeq(s) == IF s = <<>> THEN 0 ELSE Head(s) + SumSeq(Tail(s))

RECURSIVE Insert(_, _)
Insert(x, s) ==
    IF s = <<>> THEN <<x>>
    ELSE IF x <= Head(s) THEN <<x>> \o s
    ELSE <<Head(s)>> \o Insert(x, Tail(s))

RECURSIVE sorted(_)
sorted(s) == IF s = <<>> THEN <<>> ELSE Insert(Head(s), sorted(Tail(s)))

SetMin(S) == CHOOSE x \in S : \A y \in S : x <= y

SetMax(S) == CHOOSE x \in S : \A y \in S : y <= x

----------------------------------------------------------------------------
(* Column statistics *)

\* Series.median(): NaN is skipped; the median of no value is NaN
median(col) ==
    LET s == sorted(Values(dropna(col)))
        n == Len(s)
    IN  IF n = 0 THEN NaN
        ELSE IF n % 2 = 1 THEN Num(s[(n + 1) \div 2])
        ELSE Num((s[n \div 2] + s[n \div 2 + 1]) \div 2)

\* np.percentile(a, q), method 'linear': a NaN in a gives NaN
percentile(col, q) ==
    IF \E i \in 1..Len(col) : isnull(col[i]) THEN NaN
    ELSE LET s == sorted(Values(col))
             lo == ((Len(s) - 1) * q) \div 100
             rem == ((Len(s) - 1) * q) % 100
         IN  IF rem = 0 THEN Num(s[lo + 1])
             ELSE Num(s[lo + 1] + ((s[lo + 2] - s[lo + 1]) * rem) \div 100)

\* np.min / np.max of a Series: Series.min(), Series.max(), NaN skipped
np_min(col) ==
    LET d == dropna(col)
    IN  IF d = <<>> THEN NaN ELSE Num(SetMin(Range(Values(d))))

np_max(col) ==
    LET d == dropna(col)
    IN  IF d = <<>> THEN NaN ELSE Num(SetMax(Range(Values(d))))

\* np.mean of a Series, times the number of values it averages: the sum and the
\* count of the non-missing values (Series.mean(), NaN skipped)
Count(col) == Len(dropna(col))

Sum(col) == SumSeq(Values(dropna(col)))

SumSq(col) ==
    LET s == Values(dropna(col))
    IN  SumSeq([i \in 1..Len(s) |-> s[i] * s[i]])

\* np.std of a Series is Series.std(ddof=0): the population deviation.  With n
\* values of sum S and sum of squares Q, std^2 = (n*Q - S*S) / (n * (n - ddof));
\* the numerator n*Q - S*S is returned (n*n*std^2 for ddof = 0)
np_std_var(col) == Count(col) * SumSq(col) - Sum(col) * Sum(col)

----------------------------------------------------------------------------
(* Text *)

IsUpper(c) == c \in 65..90 \/ c = 304

IsLower(c) == c \in 97..122

\* _PyUnicode_IsCased: letters with a case; the combining dot U+0307, the
\* apostrophe and the space have none
IsCased(c) == IsUpper(c) \/ IsLower(c)

IsSpace(c) == c = 32

\* the full lower-case mapping: U+0130 becomes i followed by U+0307
ToLowerFull(c) ==
    IF c = 304 THEN <<105, 775>>
    ELSE IF c \in 65..90 THEN <<c + 32>>
    ELSE <<c>>

\* the full title-case mapping
ToTitleFull(c) == IF c \in 97..122 THEN <<c - 32>> ELSE <<c>>

\* str.title(): a character after a cased one is lower-cased, any other is
\* title-cased
RECURSIVE do_title(_, _)
do_title(s, previous_is_cased) ==
    IF s = <<>> THEN <<>>
    ELSE (IF previous_is_cased THEN ToLowerFull(Head(s)) ELSE ToTitleFull(Head(s)))
         \o do_title(Tail(s), IsCased(Head(s)))

title(s) == do_title(s, FALSE)

RECURSIVE lstrip(_)
lstrip(s) == IF s # <<>> /\ IsSpace(Head(s)) THEN lstrip(Tail(s)) ELSE s

RECURSIVE rstrip(_)
rstrip(s) ==
    IF s # <<>> /\ IsSpace(s[Len(s)]) THEN rstrip(SubSeq(s, 1, Len(s) - 1)) ELSE s

strip(s) == rstrip(lstrip(s))

\* astype(str): text stays, a missing value becomes the text nan
astype_str(c) == IF isnull(c) THEN <<110, 97, 110>> ELSE c.s

\* lines 125 and 127 on one cell
standardize(c) == Str(title(strip(astype_str(c))))

\* the order of Python strings: by code point, a proper prefix first
RECURSIVE StrLess(_, _)
StrLess(a, b) ==
    IF b = <<>> THEN FALSE
    ELSE IF a = <<>> THEN TRUE
    ELSE IF Head(a) # Head(b) THEN Head(a) < Head(b)
    ELSE StrLess(Tail(a), Tail(b))

\* Series.mode(): the most frequent non-missing values, in sorted order; [0] is
\* the first of them
Occurrences(col, c) == Cardinality({i \in 1..Len(col) : col[i] = c})

Modes(col) ==
    LET d == Range(dropna(col))
    IN  {c \in d : \A e \in d : Occurrences(col, e) <= Occurrences(col, c)}

FirstIndex(col, c) == SetMin({i \in 1..Len(col) : col[i] = c})

\* a changed mode0: the tied value met first in record order
mode0_first_encountered(col) ==
    CHOOSE c \in Modes(col) : \A e \in Modes(col) : FirstIndex(col, c) <= FirstIndex(col, e)

mode0(col) == CHOOSE c \in Modes(col) : \A e \in Modes(col) : e = c \/ StrLess(c.s, e.s)

----------------------------------------------------------------------------
(* The columns *)

\* the designated columns; of the script's lists the model keeps two columns
outlier_columns == <<"Age", "Cost of Treatment (USD)">>

normalize_columns == <<"Age", "Cost of Treatment (USD)">>

zscore_columns == <<"Age">>

normalized_name(column) == column \o "_normalized"

zscore_name(column) == column \o "_zscore"

\* the dtype read_csv gives a column: object when it holds text, a number type
\* (float64 when a value is missing) otherwise
IsNumericDtype(col) == \A i \in 1..Len(col) : col[i].k # "str"

select_numeric(d) == {c \in DOMAIN d : IsNumericDtype(d[c])}

select_object(d) == {c \in DOMAIN d : ~IsNumericDtype(d[c])}

nulls(col) == Cardinality({i \in 1..Len(col) : isnull(col[i])})

fillna(col, value) == [i \in 1..Len(col) |-> IF isnull(col[i]) THEN value ELSE col[i]]

----------------------------------------------------------------------------
(* 1. Missing values *)

fill_numeric(col) == IF nulls(col) > 0 THEN fillna(col, median(col)) ELSE col

fill_categorical(col) == IF nulls(col) > 0 THEN fillna(col, mode0(col)) ELSE col

fill_missing(d) ==
    [c \in DOMAIN d |->
        IF c \in select_numeric(d) THEN fill_numeric(d[c]) ELSE fill_categorical(d[c])]

----------------------------------------------------------------------------
(* 2. Outliers *)

\* float comparison: false when either side is NaN
Lt(a, b) == ~isnull(a) /\ ~isnull(b) /\ a.v < b.v

Le(a, b) == ~isnull(a) /\ ~isnull(b) /\ a.v <= b.v

\* lines 46-50
lower_bound(col) ==
    LET Q1 == percentile(col, 25)
        Q3 == percentile(col, 75)
    IN  IF isnull(Q1) THEN NaN ELSE Num(Q1.v - (3 * (Q3.v - Q1.v)) \div 2)

upper_bound(col) ==
    LET Q1 == percentile(col, 25)
        Q3 == percentile(col, 75)
    IN  IF isnull(Q1) THEN NaN ELSE Num(Q3.v + (3 * (Q3.v - Q1.v)) \div 2)

\* line 53: the rows counted as outliers
outliers(col) ==
    LET lo == lower_bound(col)
        hi == upper_bound(col)
    IN  {i \in 1..Len(col) : Lt(col[i], lo) \/ Lt(hi, col[i])}

\* a changed cap: the second np.where reads the column as it was before the
\* first, so the capping at the lower bound is lost
cap_upper_only(col) ==
    LET hi == upper_bound(col)
    IN  [i \in 1..Len(col) |-> IF Lt(hi, col[i]) THEN hi ELSE col[i]]

\* a changed cap: the outlying records are removed
cap_dropping(col) ==
    LET lo == lower_bound(col)
        hi == upper_bound(col)
    IN  SelectSeq(col, LAMBDA x : ~(Lt(x, lo) \/ Lt(hi, x)))

\* lines 57-58: np.where twice, the bounds being those computed at lines 46-50
cap(col) ==
    LET lo == lower_bound(col)
        hi == upper_bound(col)
        low_capped == [i \in 1..Len(col) |-> IF Lt(col[i], lo) THEN lo ELSE col[i]]
    IN  [i \in 1..Len(col) |-> IF Lt(hi, low_capped[i]) THEN hi ELSE low_capped[i]]

handle_outliers(d, column) == [d EXCEPT ![column] = cap(d[column])]

\* lines 66-67
RECURSIVE handle_all(_, _)
handle_all(d, cols) ==
    IF cols = <<>> THEN d ELSE handle_all(handle_outliers(d, Head(cols)), Tail(cols))

\* what line 54 prints for the i-th designated column
reported(d, i) ==
    Cardinality(outliers(handle_all(d, SubSeq(outlier_columns, 1, i - 1))[outlier_columns[i]]))

----------------------------------------------------------------------------
(* 4. Normalisation *)

\* float division: 0/0 is NaN, x/0 is infinite
Div(n, d) ==
    IF d = 0 THEN (IF n = 0 THEN NaN ELSE Inf(IF n > 0 THEN 1 ELSE -1)) ELSE Ratio(n, d)

\* a changed minmax: divides by the maximum, not by the range
minmax_by_max(x, min_val, max_val) ==
    IF isnull(x) \/ isnull(min_val) \/ isnull(max_val) THEN NaN
    ELSE Div(x.v, max_val.v)

\* line 101 on one cell
minmax(x, min_val, max_val) ==
    IF isnull(x) \/ isnull(min_val) \/ isnull(max_val) THEN NaN
    ELSE Div(x.v - min_val.v, max_val.v - min_val.v)

\* a changed normalize_column: the result is written over the source column
normalize_column_in_place(d, column) ==
    LET min_val == np_min(d[column])
        max_val == np_max(d[column])
        new == [i \in 1..Len(d[column]) |-> minmax(d[column][i], min_val, max_val)]
    IN  (normalized_name(column) :> new) @@ [d EXCEPT ![column] = new]

\* lines 98-102; assigning to df[name] replaces a column of that name
normalize_column(d, column) ==
    LET min_val == np_min(d[column])
        max_val == np_max(d[column])
        new == [i \in 1..Len(d[column]) |-> minmax(d[column][i], min_val, max_val)]
    IN  (normalized_name(column) :> new) @@ d

RECURSIVE normalize_all(_, _)
normalize_all(d, cols) ==
    IF cols = <<>> THEN d ELSE normalize_all(normalize_column(d, Head(cols)), Tail(cols))

\* a changed np_std: the sample deviation, ddof = 1
np_std_sample(col) == [num |-> np_std_var(col), den |-> Count(col) * (Count(col) - 1)]

\* np.std: the square of the deviation as the fraction num/den, ddof = 0
np_std(col) == [num |-> np_std_var(col), den |-> Count(col) * Count(col)]

\* line 117 on one cell: (x - mean) / std with mean = S/n over the n values of
\* the column, kept as the numerator n*x - S, n and std^2
zscore(x, n, S, col_std) ==
    IF isnull(x) \/ n = 0 THEN NaN
    ELSE LET dev == n * x.v - S
         IN  IF col_std.num = 0
             THEN (IF dev = 0 THEN NaN ELSE Inf(IF dev > 0 THEN 1 ELSE -1))
             ELSE ZVal(dev, n, col_std)

\* lines 115-117; assigning to df[name] replaces a column of that name
zscore_column(d, column) ==
    LET n == Count(d[column])
        S == Sum(d[column])
        col_std == np_std(d[column])
        new == [i \in 1..Len(d[column]) |-> zscore(d[column][i], n, S, col_std)]
    IN  (zscore_name(column) :> new) @@ d

RECURSIVE zscore_all(_, _)
zscore_all(d, cols) ==
    IF cols = <<>> THEN d ELSE zscore_all(zscore_column(d, Head(cols)), Tail(cols))

----------------------------------------------------------------------------
(* 5. Text formats *)

standardize_column(col) == [i \in 1..Len(col) |-> standardize(col[i])]

standardize_all(d, cols) ==
    [c \in DOMAIN d |-> IF c \in cols THEN standardize_column(d[c]) ELSE d[c]]

\* str.isalpha(): some character, and every character a letter
isalpha(s) == s # <<>> /\ \A i \in 1..Len(s) : IsCased(s[i])

\* str.istitle(): an upper-case letter only after an uncased character, a
\* lower-case letter only after a cased one, and some cased character
RECURSIVE is_title(_, _, _)
is_title(s, previous_is_cased, cased) ==
    IF s = <<>> THEN cased
    ELSE IF IsUpper(Head(s))
         THEN IF previous_is_cased THEN FALSE ELSE is_title(Tail(s), TRUE, TRUE)
    ELSE IF IsLower(Head(s))
         THEN IF previous_is_cased THEN is_title(Tail(s), TRUE, TRUE) ELSE FALSE
    ELSE is_title(Tail(s), FALSE, cased)

istitle(s) == is_title(s, FALSE, FALSE)

\* df[col].dropna().astype(str), as the set of its texts
texts_of(col) == {astype_str(c) : c \in Range(dropna(col))}

\* line 185
inconsistent_format(col) == ~(\A x \in texts_of(col) : istitle(x) \/ ~isalpha(x))

\* line 191
has_whitespace(col) == \E x \in texts_of(col) : x # strip(x)

\* lines 183-192: the warnings printed, as pairs of column and kind
format_warnings(d, cols) ==
    {<<c, "format">> : c \in {e \in cols : inconsistent_format(d[e])}}
        \cup {<<c, "whitespace">> : c \in {e \in cols : has_whitespace(d[e])}}

\* line 143
count_missing(d) ==
    LET cs == DOMAIN d
        RECURSIVE total(_)
        total(S) == IF S = {} THEN 0
                    ELSE LET c == CHOOSE x \in S : TRUE IN nulls(d[c]) + total(S \ {c})
    IN  total(cs)

----------------------------------------------------------------------------
(* The script, section by section *)

\* the order of the sections in the file, top to bottom
section_order ==
    <<"missing", "outliers", "statistics", "normalizing", "formats", "save", "validation">>

\* a changed order: the data is normalised before the outliers are capped
next_section_swapped(s) ==
    LET order == <<"missing", "normalizing", "statistics", "outliers", "formats", "save",
                   "validation">>
        i == CHOOSE j \in 1..Len(order) : order[j] = s
    IN  IF i = Len(order) THEN "done" ELSE order[i + 1]

next_section(s) ==
    LET i == CHOOSE j \in 1..Len(section_order) : section_order[j] = s
    IN  IF i = Len(section_order) THEN "done" ELSE section_order[i + 1]

\* The datasets read: 1..MaxRows records; Age and Gender cells may be missing; the
\* cost column has one large value; the file may already hold a column named
\* Age_normalized.
AgeCells == {NaN} \cup {Num(Scale * a) : a \in {1, 9}}

GenderCells == {NaN, Str(<<98>>), Str(<<32, 65>>)}

CostColumn(n) == [i \in 1..n |-> IF i = 1 THEN Num(Scale * 50) ELSE Num(Scale * 3)]

ExtraColumns(n) == {<<>>, ("Age_normalized" :> [i \in 1..n |-> Num(Scale * 7)])}

Dataset(n, a, g, e) ==
    ("Age" :> a) @@ ("Cost of Treatment (USD)" :> CostColumn(n)) @@ ("Gender" :> g) @@ e

TextIdle == txt = NaN /\ first = NaN /\ applied = 0

StatIdle == contingency_table = <<>> /\ odds_ratio = NaN

Init ==
    /\ \E n \in 1..MaxRows :
         \E a \in [1..n -> AgeCells], g \in [1..n -> GenderCells], e \in ExtraColumns(n) :
            input = Dataset(n, a, g, e)
    /\ df = input
    /\ pc = "missing"
    /\ numeric_cols = {}
    /\ categorical_cols = {}
    /\ outlier_report = <<>>
    /\ log = <<>>
    /\ output = <<>>
    /\ missing_count = -1
    /\ warnings = {}
    /\ StatIdle
    /\ TextIdle

Step(section) ==
    /\ pc = section
    /\ pc' = next_section(section)
    /\ log' = Append(log, section)
    /\ UNCHANGED <<input, txt, first, applied, contingency_table, odds_ratio>>

\* lines 14-40
HandleMissingValues ==
    /\ Step("missing")
    /\ numeric_cols' = select_numeric(df)
    /\ categorical_cols' = select_object(df)
    /\ df' = fill_missing(df)
    /\ UNCHANGED <<outlier_report, output, missing_count, warnings>>

\* lines 42-67
HandleOutliers ==
    /\ Step("outliers")
    /\ df' = handle_all(df, outlier_columns)
    /\ outlier_report' = [i \in 1..Len(outlier_columns) |-> reported(df, i)]
    /\ UNCHANGED <<numeric_cols, categorical_cols, output, missing_count, warnings>>

\* lines 69-93: printed only
DescriptiveStatistics ==
    /\ Step("statistics")
    /\ UNCHANGED <<df, numeric_cols, categorical_cols, outlier_report, output, missing_count, warnings>>

\* lines 95-118
NormalizeData ==
    /\ Step("normalizing")
    /\ df' = zscore_all(normalize_all(df, normalize_columns), zscore_columns)
    /\ UNCHANGED <<numeric_cols, categorical_cols, outlier_report, output, missing_count, warnings>>

\* lines 120-128
StandardizeFormats ==
    /\ Step("formats")
    /\ df' = standardize_all(df, categorical_cols)
    /\ UNCHANGED <<numeric_cols, categorical_cols, outlier_report, output, missing_count, warnings>>

\* lines 134-137
Save ==
    /\ Step("save")
    /\ output' = Append(output, df)
    /\ UNCHANGED <<df, numeric_cols, categorical_cols, outlier_report, missing_count, warnings>>

\* lines 139-148 and 181-192; the checks between them are printed only
FinalValidation ==
    /\ Step("validation")
    /\ missing_count' = count_missing(df)
    /\ warnings' = format_warnings(df, categorical_cols)
    /\ UNCHANGED <<df, numeric_cols, categorical_cols, outlier_report, output>>

Next ==
    \/ HandleMissingValues
    \/ HandleOutliers
    \/ DescriptiveStatistics
    \/ NormalizeData
    \/ StandardizeFormats
    \/ Save
    \/ FinalValidation

Spec == Init /\ [][Next]_vars

----------------------------------------------------------------------------
(* The text standardisation on its own, applied repeatedly to one cell *)

Alphabet == {32, 39, 65, 97, 304, 775}

Texts == UNION {[1..n -> Alphabet] : n \in 0..MaxLen}

InitText ==
    /\ txt \in {NaN} \cup {Str(s) : s \in Texts}
    /\ first = NaN
    /\ applied = 0
    /\ pc = "text"
    /\ input = <<>>
    /\ df = <<>>
    /\ numeric_cols = {}
    /\ categorical_cols = {}
    /\ outlier_report = <<>>
    /\ log = <<>>
    /\ output = <<>>
    /\ missing_count = -1
    /\ warnings = {}
    /\ StatIdle

\* lines 125-127 run on the cell once more
Standardize ==
    /\ pc = "text"
    /\ applied < 2
    /\ txt' = standardize(txt)
    /\ first' = IF applied = 0 THEN standardize(txt) ELSE first
    /\ applied' = applied + 1
    /\ UNCHANGED <<pipeVars, statVars>>

NextText == Standardize

SpecText == InitText /\ [][NextText]_vars

----------------------------------------------------------------------------
(* The final validation on its own, run on a frame with one categorical column
   of any contents *)

\* the columns validated: one or two cells, the first any text or missing, the
\* second missing or one of a few texts
SecondCells == {NaN, Str(<<65, 97>>), Str(<<97, 32, 97>>), Str(<<65, 32>>)}

ValidatedColumns ==
    {<<a>> : a \in {NaN} \cup {Str(s) : s \in Texts}}
        \cup {<<a, b>> : a \in {Str(s) : s \in Texts}, b \in SecondCells}

InitValidate ==
    /\ \E col \in ValidatedColumns : input = ("Gender" :> col)
    /\ df = input
    /\ pc = "validation"
    /\ numeric_cols = {}
    /\ categorical_cols = {"Gender"}
    /\ outlier_report = <<>>
    /\ log = <<>>
    /\ output = <<>>
    /\ missing_count = -1
    /\ warnings = {}
    /\ StatIdle
    /\ TextIdle

NextValidate == FinalValidation

SpecValidate == InitValidate /\ [][NextValidate]_vars

----------------------------------------------------------------------------
(* The odds ratio of oral_cancer_data_statistical.py, on any 2x2 table of
   Tobacco Use by Oral Cancer (Diagnosis) with cells 1..MaxCell *)

\* the labels of both columns, in the sorted order pd.crosstab gives its rows
\* and columns
labels == <<"No", "Yes">>

\* pd.crosstab(df['Tobacco Use'], df['Oral Cancer (Diagnosis)']) of a dataset
\* with nn, ny, yn, yy records of (tobacco, diagnosis) = (No, No), (No, Yes),
\* (Yes, No), (Yes, Yes)
crosstab(nn, ny, yn, yy) ==
    ("No" :> ("No" :> nn @@ "Yes" :> ny)) @@ ("Yes" :> ("No" :> yn @@ "Yes" :> yy))

\* contingency_table.iloc[i, j]: by position, from 0
iloc(table, i, j) == table[labels[i + 1]][labels[j + 1]]

\* line 67
compute_odds_ratio(table) ==
    Div(iloc(table, 0, 1) * iloc(table, 1, 0), iloc(table, 0, 0) * iloc(table, 1, 1))

InitOdds ==
    /\ \E nn, ny, yn, yy \in 1..MaxCell : contingency_table = crosstab(nn, ny, yn, yy)
    /\ odds_ratio = NaN
    /\ pc = "odds"
    /\ input = <<>>
    /\ df = <<>>
    /\ numeric_cols = {}
    /\ categorical_cols = {}
    /\ outlier_report = <<>>
    /\ log = <<>>
    /\ output = <<>>
    /\ missing_count = -1
    /\ warnings = {}
    /\ TextIdle

\* lines 66-69
OddsRatio ==
    /\ pc = "odds"
    /\ odds_ratio' = compute_odds_ratio(contingency_table)
    /\ pc' = "odds reported"
    /\ UNCHANGED <<input, df, numeric_cols, categorical_cols, outlier_report, log, output,
                   missing_count, warnings, contingency_table, txt, first, applied>>

NextOdds == OddsRatio

SpecOdds == InitOdds /\ [][NextOdds]_vars

----------------------------------------------------------------------------
(* The properties *)

Ran(section) == section \in Range(log)

Rows == Len(input["Age"])

\* the frame as it is after the imputation and before any capping
Imputed == fill_missing(input)

\* C1: after the imputation no record has a missing value in any column of the
\* input schema, whatever the input, a column with every value missing included.
C1_NoMissingAfterImputation ==
    Ran("missing") => \A c \in DOMAIN input : nulls(df[c]) = 0

\* C2: after handle_outliers every value of every designated column lies between
\* the lower and the upper bound computed from the column as it was before capping.
C2_CappedWithinBounds ==
    Ran("outliers") =>
        \A c \in Range(outlier_columns) : \A i \in 1..Len(df[c]) :
            /\ Le(lower_bound(Imputed[c]), df[c][i])
            /\ Le(df[c][i], upper_bound(Imputed[c]))

\* C3: the number of records never changes: every column of df holds as many
\* records as the input, before and after the imputation and the capping.
C3_RowCountInvariant ==
    \A c \in DOMAIN df : Len(df[c]) = Rows

\* C3 witness: the capping has run on a dataset of MaxRows records that had a
\* missing value to fill and an outlier to cap.
C3_Witness ==
    /\ Ran("outliers")
    /\ Rows = MaxRows
    /\ nulls(input["Age"]) > 0
    /\ \E i \in 1..Len(outlier_report) : outlier_report[i] > 0
    /\ C3_RowCountInvariant

\* C4: for a designated column whose maximum after capping exceeds its minimum,
\* <name>_normalized holds (x - min) / (max - min) for every record, a value in
\* [0, 1] that is 0 exactly for the records at the minimum and 1 exactly for the
\* records at the maximum.
C4_MinMaxRange ==
    (Ran("normalizing") /\ ~Ran("formats")) =>
        \A c \in Range(normalize_columns) :
            Lt(np_min(df[c]), np_max(df[c])) =>
                \A i \in 1..Rows :
                    LET y == df[normalized_name(c)][i]
                        x == df[c][i].v
                        lo == np_min(df[c]).v
                        hi == np_max(df[c]).v
                    IN  /\ y.k = "ratio"
                        /\ y.den > 0
                        /\ 0 <= y.num /\ y.num <= y.den
                        /\ y.num * (hi - lo) = (x - lo) * y.den
                        /\ (y.num = 0) <=> (x = lo)
                        /\ (y.num = y.den) <=> (x = hi)

\* C4 witness: a normalised Age column with a record at 0, one at 1 and one
\* strictly between.
C4_Witness ==
    /\ Ran("normalizing")
    /\ ~Ran("formats")
    /\ Lt(np_min(df["Age"]), np_max(df["Age"]))
    /\ \E i, j, m \in 1..Rows :
        LET y == df["Age_normalized"]
        IN  /\ y[i].k = "ratio" /\ y[i].num = 0
            /\ y[j].k = "ratio" /\ y[j].num = y[j].den
            /\ y[m].k = "ratio" /\ 0 < y[m].num /\ y[m].num < y[m].den

\* C5: once the normalisation has run, for a z-score column whose standard
\* deviation is not zero, the z-scores
\* z = num / (n * std) sum to 0 and their squares sum to the number of records:
\* the column has mean 0 and population standard deviation 1.
C5_ZscoreMoments ==
    pc = "formats" =>
        \A c \in Range(zscore_columns) :
            (Count(df[c]) > 0 /\ np_std_var(df[c]) > 0) =>
                LET z == df[zscore_name(c)]
                IN  /\ \A i \in 1..Rows : z[i].k = "z" /\ z[i].var.num > 0
                    /\ SumSeq([i \in 1..Rows |-> z[i].num]) = 0
                    /\ \A i \in 1..Rows :
                        SumSeq([j \in 1..Rows |-> z[j].num * z[j].num]) * z[i].var.den
                            = Rows * z[i].n * z[i].n * z[i].var.num

\* C5 witness: the z-scores of an Age column of MaxRows records that are not all
\* equal.
C5_Witness ==
    /\ pc = "formats"
    /\ Rows = MaxRows
    /\ np_std_var(df["Age"]) > 0
    /\ \A i \in 1..Rows : df["Age_zscore"][i].k = "z"

\* C6: the text standardisation is idempotent: the second application leaves
\* the cell as the first application made it.
C6_Idempotent ==
    applied = 2 => txt = first

\* C7: when a designated column is constant after capping, every record of the
\* derived column holds a defined value, never NaN or an infinity.
C7_ConstantColumnDefined ==
    Ran("normalizing") =>
        /\ \A c \in Range(normalize_columns) :
            (nulls(df[c]) = 0 /\ np_min(df[c]) = np_max(df[c])) =>
                \A i \in 1..Rows : df[normalized_name(c)][i].k \notin {"nan", "inf"}
        /\ \A c \in Range(zscore_columns) :
            (nulls(df[c]) = 0 /\ np_std_var(df[c]) = 0) =>
                \A i \in 1..Rows : df[zscore_name(c)][i].k \notin {"nan", "inf"}

DerivedNames ==
    {normalized_name(c) : c \in Range(normalize_columns)}
        \cup {zscore_name(c) : c \in Range(zscore_columns)}

\* C8 as stated: the normalisation leaves every column that existed before it
\* in place with every value unchanged, and the columns it adds are exactly the
\* <name>_normalized and <name>_zscore columns.
C8_OnlyAddsColumns ==
    [][pc = "normalizing" =>
        /\ \A c \in DOMAIN df : c \in DOMAIN df' /\ df'[c] = df[c]
        /\ (DOMAIN df') \ (DOMAIN df) = DerivedNames]_vars

\* C8 as amended: the normalisation leaves every column in place and unchanged
\* except a column that already bears the name of a derived column, which it
\* replaces; afterwards the columns are the earlier ones and the derived ones.
C8_AddsOrReplacesDerived ==
    [][pc = "normalizing" =>
        /\ \A c \in (DOMAIN df) \ DerivedNames : c \in DOMAIN df' /\ df'[c] = df[c]
        /\ DOMAIN df' = (DOMAIN df) \cup DerivedNames]_vars

\* C8 witness: the normalisation has run on a frame that already held a column
\* named Age_normalized, and that column no longer holds what it held.
C8_Witness ==
    /\ Ran("normalizing")
    /\ "Age_normalized" \in DOMAIN input
    /\ df["Age_normalized"] # input["Age_normalized"]
    /\ df["Age"] = handle_all(Imputed, outlier_columns)["Age"]
    /\ DerivedNames \subseteq DOMAIN df

IsPrefix(s, u) == Len(s) <= Len(u) /\ s = SubSeq(u, 1, Len(s))

\* C9: the sections run once each in the order imputation, capping, statistics,
\* normalisation, text formats; the min-max and z-score columns are computed
\* from the min, max, mean and deviation of the capped columns; the file is
\* written once, after all of these, and holds the frame as they left it.
\* the min-max and the z-score column computed from the column col
MinMaxOf(col) == [i \in 1..Len(col) |-> minmax(col[i], np_min(col), np_max(col))]

ZscoreOf(col) == [i \in 1..Len(col) |-> zscore(col[i], Count(col), Sum(col), np_std(col))]

C9_FixedOrder ==
    LET order == <<"missing", "outliers", "statistics", "normalizing", "formats">>
    IN  /\ IsPrefix(log, order) \/ IsPrefix(order, log)
        /\ Len(output) <= 1
        /\ output # <<>> => (IsPrefix(order, log) /\ output[1] = df)
        /\ pc \in {"statistics", "formats"} =>
            \A capped \in {handle_all(Imputed, outlier_columns)} :
                /\ \A c \in Range(outlier_columns) : df[c] = capped[c]
                /\ pc = "formats" =>
                    /\ \A c \in Range(normalize_columns) :
                        df[normalized_name(c)] = MinMaxOf(capped[c])
                    /\ \A c \in Range(zscore_columns) :
                        df[zscore_name(c)] = ZscoreOf(capped[c])
        /\ pc = "done" => (IsPrefix(order, log) /\ Len(output) = 1)

\* C9 witness: a finished run in which the capping changed a value.
C9_Witness ==
    /\ pc = "done"
    /\ Len(output) = 1
    /\ \E i \in 1..Len(outlier_report) : outlier_report[i] > 0
    /\ df["Age"] # Imputed["Age"]

\* the most frequent value met first in record order
FirstEncountered(col) ==
    CHOOSE c \in Modes(col) : \A e \in Modes(col) : FirstIndex(col, c) <= FirstIndex(col, e)

Smallest(col) ==
    CHOOSE c \in Modes(col) : \A e \in Modes(col) : ~StrLess(e.s, c.s)

\* C10 as stated: once the imputation has run, every missing value of a
\* categorical column is replaced by the column's most frequent value, the
\* first-encountered one on a tie.
C10_ModeFirstEncountered ==
    pc = "outliers" =>
        \A c \in select_object(input) : \A i \in 1..Rows :
            isnull(input[c][i]) => df[c][i] = FirstEncountered(input[c])

\* C10 as amended: once the imputation has run, every missing value of a
\* categorical column is replaced by the column's most frequent value, the
\* smallest in string order on a tie.
C10_ModeSmallest ==
    pc = "outliers" =>
        \A c \in select_object(input) : \A i \in 1..Rows :
            isnull(input[c][i]) => df[c][i] = Smallest(input[c])

\* C10 witness: a Gender column with a missing value and two values tied for
\* most frequent, the first-encountered one not the smallest, has been filled.
C10_Witness ==
    /\ pc = "outliers"
    /\ "Gender" \in select_object(input)
    /\ nulls(input["Gender"]) > 0
    /\ Cardinality(Modes(input["Gender"])) = 2
    /\ FirstEncountered(input["Gender"]) # Smallest(input["Gender"])
    /\ nulls(df["Gender"]) = 0

\* the value the claim gives a cell x of a column with bounds lo and hi
Clamped(x, lo, hi) == IF Lt(x, lo) THEN lo ELSE IF Lt(hi, x) THEN hi ELSE x

\* C11: handle_outliers(df, c) changes only column c, and in c only the values
\* strictly outside [lower, upper]: a value below lower becomes lower, a value
\* above upper becomes upper, every other value and every other column stays;
\* the number of values changed is the outlier count reported.  Stated of the
\* outlier section, which calls it once per designated column.
C11_CapsOnlyOutliers ==
    [][pc = "outliers" =>
        /\ DOMAIN df' = DOMAIN df
        /\ \A c \in (DOMAIN df) \ Range(outlier_columns) : df'[c] = df[c]
        /\ \A c \in Range(outlier_columns) : \A o \in (DOMAIN df) \ {c} :
            handle_outliers(df, c)[o] = df[o]
        /\ \A j \in 1..Len(outlier_columns) :
            \A c \in {outlier_columns[j]} :
            \A lo \in {lower_bound(df[c])} : \A hi \in {upper_bound(df[c])} :
                /\ handle_outliers(df, c)[c] = df'[c]
                /\ Len(df'[c]) = Len(df[c])
                /\ \A i \in 1..Len(df[c]) : df'[c][i] = Clamped(df[c][i], lo, hi)
                /\ Cardinality({i \in 1..Len(df[c]) : df'[c][i] # df[c][i]})
                    = outlier_report'[j]]_vars

\* C11 witness: the capping has run on an Age column in which it raised one
\* value to the lower bound and left the others, and it reported one outlier;
\* the Gender column is as it was.
C11_Witness ==
    /\ pc = "statistics"
    /\ outlier_report[1] = 1
    /\ \A lo \in {lower_bound(Imputed["Age"])} :
        /\ \E i \in 1..Rows : Lt(Imputed["Age"][i], lo) /\ df["Age"][i] = lo
        /\ \E i \in 1..Rows : df["Age"][i] = Imputed["Age"][i]
    /\ df["Gender"] = Imputed["Gender"]

\* C12: the validation emits a formatting warning for a categorical column if
\* and only if one of its values is not title-cased (title-casing would change
\* it) or has leading or trailing whitespace.
C12_WarnsIffMisformatted ==
    pc = "done" =>
        \A c \in categorical_cols :
            (\E kind \in {"format", "whitespace"} : <<c, kind>> \in warnings)
                <=> (\E x \in texts_of(df[c]) : x # title(x) \/ x # strip(x))

\* C13: the odds ratio reported for a 2x2 table with non-zero cells is the odds
\* of a diagnosis among tobacco users divided by the odds among non-users,
\* (Yes,Yes * No,No) / (Yes,No * No,Yes), so that it is above 1 exactly when
\* tobacco users are the more likely to be diagnosed.
C13_OddsRatioOfUsers ==
    pc = "odds reported" =>
        \A yy \in {contingency_table["Yes"]["Yes"]} : \A nn \in {contingency_table["No"]["No"]} :
        \A yn \in {contingency_table["Yes"]["No"]} : \A ny \in {contingency_table["No"]["Yes"]} :
            /\ odds_ratio.k = "ratio"
            /\ odds_ratio.num * (yn * ny) = (yy * nn) * odds_ratio.den
            /\ (odds_ratio.num > odds_ratio.den) <=> (yy * ny + yy * nn > ny * yy + ny * yn)

====
